---- MODULE Spec2Model ----
(***************************************************************************)
(* A model of the cross-thread bridging layer of wpa_supplicant/libcore.py *)
(* (python-wpa-supplicant): TimeoutDeferredQueue, RemoteSignal,            *)
(* BaseIface.register_signal / register_signal_once and Interface.scan.    *)
(*                                                                         *)
(* Two threads are modelled.  The CALLER thread is a foreign (non-reactor) *)
(* thread that runs the library's public methods; its position is `pc`     *)
(* and it moves one Python statement at a time.  The ENGINE thread is the  *)
(* Twisted reactor: each of its events (a signal dispatch, a timer, the    *)
(* reply to a remote call) runs to completion, so it is one action.        *)
(* A library call made by one statement (Deferred.addCallback,             *)
(* DeferredQueue.put, reactor.callLater ...) is taken as atomic; the       *)
(* check-then-act pairs the Python code itself spells out                  *)
(* (`if self.pending:` ... `self.waiting.append(d)`) are separate steps.   *)
(***************************************************************************)
EXTENDS Integers, Sequences, FiniteSets, TLC

(***************************************************************************)
(* Bounds of the model.                                                    *)
(***************************************************************************)
MaxOps == 2        \* operations the caller starts, all operations allowed
MaxQueueOps == 3   \* ... when it uses register_signal_once and get only
MaxSignalOps == 3  \* ... when it uses register_signal and cancel only
MaxScanOps == 1    \* ... when it uses scan only
MaxFires == 2      \* signals the daemon emits
MaxDriverOps == 3  \* ... when it uses the driver and the root proxy only
MaxNetworkOps == 4 \* ... when it uses select, disconnect, get_current_network
MinFreq == 2405    \* lowest Frequency property tried (MHz)
MaxFreq == 2490    \* highest Frequency property tried (MHz)
MaxLoss == 105     \* the weakest Signal property tried is -MaxLoss dBm
MinLoss == 45      \* the strongest Signal property tried is -MinLoss dBm
MaxSsidLen == 3    \* longest stored ssid string tried
MaxCacheOps == 4   \* root-proxy operations started in the cache runs
MaxCalls == 1      \* get_interface calls each of the two extra threads makes

(***************************************************************************)
(* Program constants.                                                      *)
(***************************************************************************)
ScanTimeout == 10  \* deferred_queue.get(timeout=10) in Interface.scan

Signals == {"ScanDone", "PropertiesChanged"}
Payloads == BOOLEAN
Timeouts == {0, ScanTimeout}       \* 0 stands for timeout=None (falsy)
BssPaths == {"bss1", "bss2"}

\* the interface names the daemon can control and their object paths, and
\* the names a caller may ask for
ValidInterfaces == [n \in {"wlan0", "sta0"} |->
                       IF n = "wlan0" THEN "/Interfaces/3" ELSE "/Interfaces/4"]
IfacePaths == {ValidInterfaces[n] : n \in DOMAIN ValidInterfaces}
IfaceNames == DOMAIN ValidInterfaces \cup {"eth9"}
Messages == {"", "failed"}
NetworkPaths == {"/Networks/0", "/Networks/1"}

\* _REMOTE_EXCEPTIONS: wire name -> local error kind
REMOTE_EXCEPTIONS ==
    [n \in {"fi.w1.wpa_supplicant1.UnknownError",
            "fi.w1.wpa_supplicant1.InvalidArgs",
            "fi.w1.wpa_supplicant1.InterfaceExists",
            "fi.w1.wpa_supplicant1.InterfaceUnknown",
            "fi.w1.wpa_supplicant1.NotConnected",
            "fi.w1.wpa_supplicant1.NetworkUnknown"} |->
        CASE n = "fi.w1.wpa_supplicant1.UnknownError" -> "UnknownError"
          [] n = "fi.w1.wpa_supplicant1.InvalidArgs" -> "InvalidArgs"
          [] n = "fi.w1.wpa_supplicant1.InterfaceExists" -> "InterfaceExists"
          [] n = "fi.w1.wpa_supplicant1.InterfaceUnknown" -> "InterfaceUnknown"
          [] n = "fi.w1.wpa_supplicant1.NotConnected" -> "NotConnected"
          [] n = "fi.w1.wpa_supplicant1.NetworkUnknown" -> "NetworkUnknown"]

\* a decorator that raises the base kind for every RemoteError
CatchRemoteErrorsGeneric(n) == "WpaSupplicantException"

\* _catch_remote_errors: the local kind raised for a RemoteError named n
CatchRemoteErrors(n) ==
    IF n \in DOMAIN REMOTE_EXCEPTIONS
        THEN REMOTE_EXCEPTIONS[n]
        ELSE "WpaSupplicantException"

\* a decorator that logs nothing
NoWarning(w, n) == w

\* _catch_remote_errors: logger.warn("Unrecognized error: ...") adds the
\* name of an error that is not in the table to the log w
Warned(w, n) == IF n \in DOMAIN REMOTE_EXCEPTIONS THEN w ELSE w \cup {n}

\* the error names the daemon may answer a call with
RemoteErrorNames ==
    {"fi.w1.wpa_supplicant1.InvalidArgs",
     "fi.w1.wpa_supplicant1.UnknownError",
     "org.freedesktop.DBus.Error.NoReply"}

(***************************************************************************)
(* Python values that cross the bridge.                                    *)
(***************************************************************************)
\* the outcome of a Deferred / of a call: a value or a raised error
Val(v) == [kind |-> "value", val |-> v, err |-> "none"]
Err(e) == [kind |-> "raise", val |-> FALSE, err |-> e]
NoResult == [kind |-> "none", val |-> FALSE, err |-> "none"]

VARIABLES
    subs,       \* RemoteSignal objects / match rules, in creation order
    pending,    \* pending[i]: DeferredQueue.pending of the queue of subs[i]
    waiting,    \* waiting[i]: DeferredQueue.waiting (indices into waits)
    waits,      \* the Deferreds handed out by DeferredQueue.get, with their timer
    scanSent,   \* the options dictionaries sent with callRemote('Scan', ...)
    bss,        \* the daemon's BSSs property of the interface
    call,       \* the remote call the caller is blocked on
    pc,         \* the caller thread's position
    cur,        \* the caller thread's locals
    ret,        \* what the caller's last operation returned or raised
    opsLeft,    \* operations the caller thread may still start
    fires,      \* signals emitted
    reactor,    \* the Twisted reactor: "idle", "running" or "stopped"
    threadName, \* reactor.thread_name, "none" until connect records it
    connects,   \* client.connect attempts made on the reactor
    root,       \* the caller holds the WpaSupplicant root proxy
    created,    \* the daemon's registered interfaces (object paths)
    cache,      \* WpaSupplicant._interfaces_cache: path -> proxy, 0 for none
    proxies,    \* Interface proxy objects constructed so far
    warnings,   \* error names logged by logger.warn
    evald,      \* the last _eval of a completed future and what it gave
    io,         \* the bus interactions and timer schedulings made, with their thread
    currentNetwork, \* the daemon's CurrentNetwork of the interface
    conv,       \* the last property conversion made and what it gave
    callers,    \* two caller threads inside WpaSupplicant.get_interface
    removed     \* <<path, cache entry>> at each successful remove_interface

\* the driver, the root proxy and the daemon's interface registry
drv == <<reactor, threadName, connects, root, created, cache, proxies, warnings, evald>>

\* the interface's network selection, the conversions and the second thread
ext == <<currentNetwork, conv, callers, removed>>

vars == <<subs, pending, waiting, waits, scanSent, bss, call, pc, cur, ret, opsLeft, fires,
          reactor, threadName, connects, root, created, cache, proxies, warnings, evald,
          io, currentNetwork, conv, callers, removed>>

NoArgs == [type |-> "active", ssids |-> "None", ies |-> "None",
           channels |-> "None", block |-> FALSE]

\* what the daemon (or the bus) answered to a remote call
NoReply == [kind |-> "none", path |-> "none", errName |-> "none", message |-> "",
            by |-> "daemon"]
OkReply(path) == [NoReply EXCEPT !.kind = "ok", !.path = path]
\* txdbus.error.RemoteError(errName) with its message
RemoteError(errName, message) ==
    [NoReply EXCEPT !.kind = "error", !.errName = errName, !.message = message]

NoCur == [op |-> "none", name |-> "none", args |-> NoArgs, timeout |-> 0,
          sub |-> 0, wait |-> 0, sawPending |-> FALSE, next |-> "none",
          subs0 |-> 0, waits0 |-> 0, sent0 |-> 0,
          path |-> "none", reply |-> NoReply, ctor |-> NoReply,
          wasRunning |-> TRUE, created0 |-> {}, cache0 |-> [p \in IfacePaths |-> 0],
          proxies0 |-> 0, connects0 |-> 0, thread0 |-> "none",
          current0 |-> "None"]

NoRet == [kind |-> "none", what |-> "none", val |-> FALSE, err |-> "none",
          paths |-> {}, proxy |-> 0, message |-> ""]

NoCall == [method |-> "none"]

\* no conversion has been made yet
NoProps == [ssid |-> <<>>, key_mgmt |-> "NONE"]
NoConv == [fn |-> "none", freq |-> 0, dbm |-> 0, props |-> NoProps,
           kind |-> "none", num |-> 0, out |-> NoProps, err |-> "none"]

\* the two extra caller threads, both outside get_interface
NoCallers == [t \in {1, 2} |-> [pc |-> "idle", name |-> "none", path |-> "none",
                                found |-> 0, made |-> 0, got |-> 0, calls |-> 0]]

\* no _eval of a completed future has been observed yet
NoEval == [thread |-> "none", future |-> NoResult,
           out |-> [how |-> "none", wrapped |-> FALSE, inner |-> NoResult,
                    scheduled |-> FALSE]]

InitWith(budget) ==
    /\ subs = <<>>
    /\ pending = <<>>
    /\ waiting = <<>>
    /\ waits = <<>>
    /\ scanSent = <<>>
    /\ bss = {}
    /\ call = NoCall
    /\ pc = "idle"
    /\ cur = NoCur
    /\ ret = NoRet
    /\ opsLeft = budget
    /\ fires = 0
    /\ reactor = "running"
    /\ threadName = "engine"
    /\ connects = 1
    /\ root = TRUE
    /\ created = {}
    /\ cache = [p \in IfacePaths |-> 0]
    /\ proxies = 0
    /\ warnings = {}
    /\ evald = NoEval
    /\ io = {}
    /\ currentNetwork = "None"
    /\ conv = NoConv
    /\ callers = NoCallers
    /\ removed = {}

Init == InitWith(MaxOps)

\* reactor.running: the engine runs its events only while it is running
Running == reactor = "running"


(***************************************************************************)
(* Records of the model.                                                   *)
(***************************************************************************)
\* a RemoteSignal and its match rule on the remote object.  state: "pending"
\* until the subscription future (notifyOnSignal's Deferred) has fired,
\* "active" while the rule is in place, "cancelled" once it is removed.
NewSub(name, kind, cb, owner) ==
    [name |-> name, kind |-> kind, cb |-> cb, owner |-> owner,
     state |-> "pending",
     sigvar |-> FALSE,    \* register_signal_once: the closure's `signal` is set
     invoked |-> 0,       \* times the callback ran
     lastVal |-> FALSE,   \* the value it last ran with
     cancels |-> 0,       \* cancelSignalNotification calls made for it
     cancelDone |-> FALSE,\* a cancel() of this RemoteSignal has returned
     lateRuns |-> 0]      \* callback runs after a cancel() had returned

\* a Deferred returned by DeferredQueue.get, with the DelayedCall of its timeout
NewWait(q) ==
    [q |-> q, called |-> FALSE, result |-> NoResult,
     timer |-> "none",    \* DelayedCall: none / scheduled / cancelled / called
     cbs |-> "none",      \* callback chain: "stop" when _stop_timeout is queued
     nCallback |-> 0,     \* times .callback() fired it
     nErrback |-> 0]      \* times .errback() fired it

(***************************************************************************)
(* TimeoutDeferredQueue and the Deferred it hands out.                     *)
(***************************************************************************)
\* TimeoutDeferredQueue._stop_timeout(result, call_id): call_id.cancel() and
\* pass the result on.  DelayedCall.cancel() raises on a call that already
\* ran or was cancelled, and an exception in a callback becomes the result.
StopTimeout(w) ==
    CASE w.timer = "scheduled" -> [w EXCEPT !.timer = "cancelled"]
      [] w.timer = "called" -> [w EXCEPT !.result = Err("AlreadyCalled")]
      [] w.timer = "cancelled" -> [w EXCEPT !.result = Err("AlreadyCancelled")]
      [] OTHER -> w

\* Deferred._runCallbacks: a fired Deferred runs its queued callback; a
\* callback (not an errback) is skipped when the current result is a failure.
RunCallbacks(w) ==
    IF w.called /\ w.cbs = "stop"
        THEN IF w.result.kind = "value"
                 THEN StopTimeout([w EXCEPT !.cbs = "none"])
                 ELSE [w EXCEPT !.cbs = "none"]
        ELSE w

\* Deferred.callback(v)
Callback(w, v) ==
    RunCallbacks([w EXCEPT !.called = TRUE, !.result = Val(v),
                           !.nCallback = @ + 1])

\* Deferred.errback(MethodTimeout(...))
Errback(w, e) ==
    RunCallbacks([w EXCEPT !.called = TRUE, !.result = Err(e),
                           !.nErrback = @ + 1])

\* deferred.addCallback(self._stop_timeout, call_id)
AddStopCallback(w) == RunCallbacks([w EXCEPT !.cbs = "stop"])

\* sequence s without its element x
RECURSIVE Without(_, _)
Without(s, x) ==
    IF s = <<>> THEN <<>>
    ELSE IF Head(s) = x THEN Tail(s)
    ELSE <<Head(s)>> \o Without(Tail(s), x)

InSeq(s, x) == \E k \in DOMAIN s : s[k] = x

\* TimeoutDeferredQueue._timed_out(deferred): does the timer fail the wait?
TimedOutActs(w, q) == ~waits[w].called /\ InSeq(waiting[q], w)

\* _eval(deferred, reactor): on the reactor thread the inlineCallbacks
\* closure() is returned as it is, a Deferred around the value; on another
\* thread blockingCallFromThread hands back the value itself.
EvalValue(onEngine, v) == [wrapped |-> onEngine, v |-> v]

\* an _eval that hands a failure back as if it were a value
EvalReturnsAll(onEngine, r) ==
    [how |-> "return", wrapped |-> onEngine, inner |-> r, scheduled |-> ~onEngine]

\* _eval(deferred, reactor) of a Deferred that has fired with outcome r: the
\* inlineCallbacks closure() reads deferred.result and is itself a Deferred
\* with that outcome.  On the reactor thread _eval returns this Deferred
\* (nothing is raised, whatever r is); on another thread
\* blockingCallFromThread hands closure to the reactor (scheduled), blocks
\* until the reactor has run it, and returns its value or raises its error.
Eval(onEngine, r) ==
    IF onEngine
        THEN [how |-> "return", wrapped |-> TRUE, inner |-> r, scheduled |-> FALSE]
        ELSE [how |-> IF r.kind = "raise" THEN "raise" ELSE "return",
              wrapped |-> FALSE, inner |-> r, scheduled |-> TRUE]

\* remote_object.cancelSignalNotification(arg) for the rule of sub s (rule
\* id i): the rule is removed when arg is the id of a rule in place.
CancelSignalNotification(s, i, arg) ==
    [s EXCEPT !.cancels = @ + 1,
              !.state = IF ~arg.wrapped /\ arg.v = i /\ @ = "active"
                            THEN "cancelled" ELSE @]

\* RemoteSignal.cancel() for sub s with rule id i
RemoteSignalCancel(s, i, onEngine) ==
    [CancelSignalNotification(s, i, EvalValue(onEngine, i))
        EXCEPT !.cancelDone = TRUE]

\* the callback that notifyOnSignal registered for sub s runs with value v:
\* register_signal_once's signal_callback (q.put is in FireSignal) cancels
\* its RemoteSignal when `signal` is set; a user callback runs, and cancels
\* its own handle when the user wrote it so.
SignalCallback(s, i, v) ==
    LET ran == [s EXCEPT !.invoked = @ + 1, !.lastVal = v,
                         !.lateRuns = IF s.cancelDone THEN @ + 1 ELSE @]
    IN  IF (s.kind = "once" /\ s.sigvar) \/ (s.kind = "user" /\ s.cb = "cancels")
            THEN RemoteSignalCancel(ran, i, TRUE)
            ELSE ran

\* Interface.scan: the options dictionary sent with the Scan call
ScanOptions(args) == {<<"Type", args.type>>}

\* Interface.scan, `if block:` taken the wrong way round for block=False
ScanFirstStepRegisters(args) == "rso_new"

\* Interface.scan, `if block:`: a blocking scan registers for ScanDone
\* first, a non-blocking one goes straight to the Scan call
ScanFirstStep(args) == IF args.block THEN "rso_new" ELSE "scan_call"

\* Interface.scan after deferred_queue.get: what the wait's outcome leads to
ScanAfterGet(result) ==
    IF result.kind = "raise" THEN "raise"
    ELSE IF result.val THEN "fetch"
    ELSE "UnknownError"


(***************************************************************************)
(* The caller thread.                                                      *)
(***************************************************************************)
CanStart == pc \in {"idle", "done"} /\ opsLeft > 0

Begin(op) ==
    [NoCur EXCEPT !.op = op, !.subs0 = Len(subs), !.waits0 = Len(waits),
                  !.sent0 = Len(scanSent),
                  !.wasRunning = (reactor = "running"),
                  !.created0 = created, !.cache0 = cache,
                  !.proxies0 = proxies, !.connects0 = connects,
                  !.thread0 = threadName,
                  !.current0 = currentNetwork]

Returns(what) == [NoRet EXCEPT !.kind = "return", !.what = what]
Raises(e) == [NoRet EXCEPT !.kind = "raise", !.err = e]

\* the queues register_signal_once returned to the caller
QueueHandles ==
    {i \in DOMAIN subs : subs[i].kind = "once" /\ subs[i].owner = "rso"
                           /\ subs[i].sigvar}
\* the RemoteSignal handles register_signal returned to the caller
SignalHandles == {i \in DOMAIN subs : subs[i].kind = "user"}

\* the calls of scan tried: the defaults, and each keyword argument given
ScanArgs ==
    {[NoArgs EXCEPT !.block = b] : b \in BOOLEAN}
    \cup {[NoArgs EXCEPT !.type = "passive", !.block = b] : b \in BOOLEAN}
    \cup {[NoArgs EXCEPT !.ssids = "ssid1", !.block = b] : b \in BOOLEAN}
    \cup {[NoArgs EXCEPT !.ies = "ie1", !.block = b] : b \in BOOLEAN}
    \cup {[NoArgs EXCEPT !.channels = "ch1", !.block = b] : b \in BOOLEAN}

\* BaseIface.register_signal(signal_name, callback)
RegisterSignal(name, cb) ==
    /\ CanStart
    /\ opsLeft' = opsLeft - 1
    /\ cur' = [Begin("register_signal") EXCEPT !.name = name]
    /\ pc' = "done"
    /\ IF cb = "not_callable"
         THEN /\ ret' = Raises("WpaSupplicantException")
              /\ UNCHANGED <<subs, pending, waiting>>
         ELSE /\ subs' = Append(subs, NewSub(name, "user", cb, "user"))
              /\ pending' = Append(pending, <<>>)
              /\ waiting' = Append(waiting, <<>>)
              /\ ret' = Returns("handle")
    /\ UNCHANGED <<waits, scanSent, bss, call, fires>>
    /\ UNCHANGED drv
    /\ UNCHANGED ext
    /\ io' = IF cb = "not_callable" THEN io
                                     ELSE io \cup {<<"notifyOnSignal", "caller">>}

\* RemoteSignal.cancel() entered from the caller thread: _eval blocks in
\* blockingCallFromThread until the subscription future has fired
CancelEnter(h) ==
    /\ CanStart
    /\ h \in SignalHandles
    /\ opsLeft' = opsLeft - 1
    /\ cur' = [Begin("cancel") EXCEPT !.sub = h, !.name = subs[h].name]
    /\ pc' = "cancel_eval"
    /\ ret' = NoRet
    /\ UNCHANGED <<subs, pending, waiting, waits, scanSent, bss, call, fires>>
    /\ UNCHANGED drv
    /\ UNCHANGED ext
    /\ UNCHANGED io

\* ... and cancelSignalNotification(rule id) then runs on the caller thread
CancelReturn ==
    /\ pc = "cancel_eval"
    /\ subs[cur.sub].state # "pending"
    /\ subs' = [subs EXCEPT ![cur.sub] = RemoteSignalCancel(@, cur.sub, FALSE)]
    /\ ret' = Returns("None")
    /\ pc' = "done"
    /\ UNCHANGED <<pending, waiting, waits, scanSent, bss, call, cur, opsLeft, fires>>
    /\ UNCHANGED drv
    /\ UNCHANGED ext
    /\ io' = io \cup {<<"cancelSignalNotification", "caller">>}

\* BaseIface.register_signal_once(signal_name) entered
RegisterSignalOnce(name) ==
    /\ CanStart
    /\ opsLeft' = opsLeft - 1
    /\ cur' = [Begin("register_signal_once") EXCEPT !.name = name]
    /\ pc' = "rso_new"
    /\ ret' = NoRet
    /\ UNCHANGED <<subs, pending, waiting, waits, scanSent, bss, call, fires>>
    /\ UNCHANGED drv
    /\ UNCHANGED ext
    /\ UNCHANGED io

\* q = TimeoutDeferredQueue(reactor); RemoteSignal(...) calls notifyOnSignal
RsoNew ==
    /\ pc = "rso_new"
    /\ subs' = Append(subs, NewSub(cur.name, "once", "signal_callback",
                                   IF cur.op = "scan" THEN "scan" ELSE "rso"))
    /\ pending' = Append(pending, <<>>)
    /\ waiting' = Append(waiting, <<>>)
    /\ cur' = [cur EXCEPT !.sub = Len(subs) + 1]
    /\ pc' = "rso_assign"
    /\ UNCHANGED <<waits, scanSent, bss, call, ret, opsLeft, fires>>
    /\ UNCHANGED drv
    /\ UNCHANGED ext
    /\ io' = io \cup {<<"notifyOnSignal", "caller">>}

\* signal = RemoteSignal(...) is assigned; return q
RsoAssign ==
    /\ pc = "rso_assign"
    /\ subs' = [subs EXCEPT ![cur.sub].sigvar = TRUE]
    /\ IF cur.op = "scan"
         THEN pc' = "scan_call" /\ ret' = ret
         ELSE pc' = "done" /\ ret' = Returns("queue")
    /\ UNCHANGED <<pending, waiting, waits, scanSent, bss, call, cur, opsLeft, fires>>
    /\ UNCHANGED drv
    /\ UNCHANGED ext
    /\ UNCHANGED io

\* TimeoutDeferredQueue.get(timeout) entered on a queue the caller holds
Get(q, timeout) ==
    /\ CanStart
    /\ q \in QueueHandles
    /\ opsLeft' = opsLeft - 1
    /\ cur' = [Begin("get") EXCEPT !.sub = q, !.timeout = timeout,
                                   !.name = subs[q].name]
    /\ pc' = "get_check"
    /\ ret' = NoRet
    /\ UNCHANGED <<subs, pending, waiting, waits, scanSent, bss, call, fires>>
    /\ UNCHANGED drv
    /\ UNCHANGED ext
    /\ UNCHANGED io

\* DeferredQueue.get: `if self.pending:`
GetCheck ==
    /\ pc = "get_check"
    /\ cur' = [cur EXCEPT !.sawPending = (pending[cur.sub] # <<>>)]
    /\ pc' = "get_take"
    /\ UNCHANGED <<subs, pending, waiting, waits, scanSent, bss, call, ret, opsLeft, fires>>
    /\ UNCHANGED drv
    /\ UNCHANGED ext
    /\ UNCHANGED io

\* DeferredQueue.get: `return succeed(self.pending.pop(0))`, or
\* `d = Deferred(); self.waiting.append(d); return d`
GetTake ==
    /\ pc = "get_take"
    /\ LET q == cur.sub
           w == Len(waits) + 1
       IN  /\ IF cur.sawPending
                THEN /\ waits' = Append(waits,
                                   Callback(NewWait(q), Head(pending[q])))
                     /\ pending' = [pending EXCEPT ![q] = Tail(@)]
                     /\ waiting' = waiting
                ELSE /\ waits' = Append(waits, NewWait(q))
                     /\ waiting' = [waiting EXCEPT ![q] = Append(@, w)]
                     /\ pending' = pending
           /\ cur' = [cur EXCEPT !.wait = w]
    /\ pc' = IF cur.timeout # 0 THEN "get_timer" ELSE "get_eval"
    /\ UNCHANGED <<subs, scanSent, bss, call, ret, opsLeft, fires>>
    /\ UNCHANGED drv
    /\ UNCHANGED ext
    /\ UNCHANGED io

\* call_id = self._reactor.callLater(timeout, self._timed_out, deferred)
GetTimer ==
    /\ pc = "get_timer"
    /\ waits' = [waits EXCEPT ![cur.wait].timer = "scheduled"]
    /\ pc' = "get_addcb"
    /\ UNCHANGED <<subs, pending, waiting, scanSent, bss, call, cur, ret, opsLeft, fires>>
    /\ UNCHANGED drv
    /\ UNCHANGED ext
    /\ io' = io \cup {<<"callLater", "caller">>}

\* deferred.addCallback(self._stop_timeout, call_id)
GetAddCallback ==
    /\ pc = "get_addcb"
    /\ waits' = [waits EXCEPT ![cur.wait] = AddStopCallback(@)]
    /\ pc' = "get_eval"
    /\ UNCHANGED <<subs, pending, waiting, scanSent, bss, call, cur, ret, opsLeft, fires>>
    /\ UNCHANGED drv
    /\ UNCHANGED ext
    /\ UNCHANGED io

\* return _eval(deferred, self._reactor): the caller is released once the
\* Deferred has fired, with its value or its error.  In scan the value then
\* decides between fetching the BSSs and raising UnknownError.
GetEval ==
    /\ pc = "get_eval"
    /\ waits[cur.wait].called
    /\ LET r == waits[cur.wait].result
       IN  IF cur.op = "scan"
             THEN CASE ScanAfterGet(r) = "raise" ->
                         pc' = "done" /\ ret' = Raises(r.err)
                    [] ScanAfterGet(r) = "fetch" ->
                         pc' = "bss_call" /\ ret' = ret
                    [] OTHER ->
                         pc' = "done" /\ ret' = Raises(ScanAfterGet(r))
             ELSE /\ pc' = "done"
                  /\ ret' = IF r.kind = "raise" THEN Raises(r.err)
                            ELSE [Returns("value") EXCEPT !.val = r.val]
    /\ UNCHANGED <<subs, pending, waiting, waits, scanSent, bss, call, cur, opsLeft, fires>>
    /\ UNCHANGED drv
    /\ UNCHANGED ext
    /\ UNCHANGED io

\* Interface.scan(type, ssids, ies, channels, block) entered
Scan(args) ==
    /\ CanStart
    /\ opsLeft' = opsLeft - 1
    /\ cur' = [Begin("scan") EXCEPT !.args = args, !.name = "ScanDone",
                                    !.timeout = ScanTimeout]
    /\ pc' = ScanFirstStep(args)
    /\ ret' = NoRet
    /\ UNCHANGED <<subs, pending, waiting, waits, scanSent, bss, call, fires>>
    /\ UNCHANGED drv
    /\ UNCHANGED ext
    /\ UNCHANGED io

\* self._call_remote('Scan', scan_options): callRemote is issued, then _eval
\* blocks the caller until the reply
ScanCall ==
    /\ pc = "scan_call"
    /\ scanSent' = Append(scanSent, ScanOptions(cur.args))
    /\ call' = [method |-> "Scan"]
    /\ pc' = "call_wait"
    /\ UNCHANGED <<subs, pending, waiting, waits, bss, cur, ret, opsLeft, fires>>
    /\ UNCHANGED drv
    /\ UNCHANGED ext
    /\ io' = io \cup {<<"callRemote", "caller">>}

\* self.get_all_bss(): _call_remote('Get', INTERFACE_PATH, 'BSSs')
BssCall ==
    /\ pc = "bss_call"
    /\ call' = [method |-> "Get"]
    /\ pc' = "call_wait"
    /\ UNCHANGED <<subs, pending, waiting, waits, scanSent, bss, cur, ret, opsLeft, fires>>
    /\ UNCHANGED drv
    /\ UNCHANGED ext
    /\ io' = io \cup {<<"callRemote", "caller">>}


(***************************************************************************)
(* The engine (reactor) thread.                                            *)
(***************************************************************************)
\* the reply to AddMatch arrives: notifyOnSignal's Deferred fires with the
\* rule id and the rule is in place
SubscribeReply(i) ==
    /\ Running
    /\ i \in DOMAIN subs
    /\ subs[i].state = "pending"
    /\ subs' = [subs EXCEPT ![i].state = "active"]
    /\ UNCHANGED <<pending, waiting, waits, scanSent, bss, call, pc, cur, ret, opsLeft, fires>>
    /\ UNCHANGED drv
    /\ UNCHANGED ext
    /\ UNCHANGED io

\* does the signal `name` reach the callback of sub i?
Hit(i, name) == subs[i].state = "active" /\ subs[i].name = name

\* does signal_callback's q.put(v) find a waiting Deferred in queue i?
PutFires(i, name) ==
    Hit(i, name) /\ subs[i].kind = "once" /\ waiting[i] # <<>>

\* does q.put(v) buffer the value in queue i?
PutBuffers(i, name) ==
    Hit(i, name) /\ subs[i].kind = "once" /\ waiting[i] = <<>>

\* the daemon emits signal `name` with value v: every callback registered for
\* it and still subscribed runs (for register_signal_once: q.put(v), then
\* signal.cancel()); a ScanDone comes with a new set of scan results
FireSignal(name, v, found) ==
    /\ Running
    /\ fires < MaxFires
    /\ fires' = fires + 1
    /\ bss' = IF name = "ScanDone" /\ v THEN found ELSE bss
    /\ pending' = [i \in DOMAIN pending |->
                     IF PutBuffers(i, name) THEN Append(pending[i], v)
                                            ELSE pending[i]]
    /\ waiting' = [i \in DOMAIN waiting |->
                     IF PutFires(i, name) THEN Tail(waiting[i]) ELSE waiting[i]]
    /\ waits' = [w \in DOMAIN waits |->
                     IF PutFires(waits[w].q, name) /\ Head(waiting[waits[w].q]) = w
                         THEN Callback(waits[w], v)
                         ELSE waits[w]]
    /\ subs' = [i \in DOMAIN subs |->
                     IF Hit(i, name) THEN SignalCallback(subs[i], i, v)
                                     ELSE subs[i]]
    /\ UNCHANGED <<scanSent, call, pc, cur, ret, opsLeft>>
    /\ UNCHANGED drv
    /\ UNCHANGED ext
    /\ io' = IF \E i \in DOMAIN subs :
                     Hit(i, name) /\ subs'[i].cancels > subs[i].cancels
                 THEN io \cup {<<"cancelSignalNotification", "engine">>}
                 ELSE io

\* the DelayedCall of wait w runs: TimeoutDeferredQueue._timed_out(deferred)
TimerFire(w) ==
    /\ Running
    /\ w \in DOMAIN waits
    /\ waits[w].timer = "scheduled"
    /\ LET q == waits[w].q
       IN  IF TimedOutActs(w, q)
             THEN /\ waiting' = [waiting EXCEPT ![q] = Without(@, w)]
                  /\ waits' = [waits EXCEPT ![w] =
                                 Errback([@ EXCEPT !.timer = "called"],
                                         "MethodTimeout")]
             ELSE /\ waiting' = waiting
                  /\ waits' = [waits EXCEPT ![w].timer = "called"]
    /\ UNCHANGED <<subs, pending, scanSent, bss, call, pc, cur, ret, opsLeft, fires>>
    /\ UNCHANGED drv
    /\ UNCHANGED ext
    /\ UNCHANGED io

\* the reply to the caller's remote call arrives and _eval hands it to the
\* caller: a RemoteError goes through _catch_remote_errors; the reply to
\* Scan ends a non-blocking scan and lets a blocking one go on to the wait;
\* the reply to Get('BSSs') ends scan with one BSS proxy per path
CallReply(outcome) ==
    /\ Running
    /\ pc = "call_wait"
    /\ call' = NoCall
    /\ warnings' = IF outcome # "ok" THEN Warned(warnings, outcome) ELSE warnings
    /\ IF outcome # "ok"
         THEN pc' = "done" /\ ret' = Raises(CatchRemoteErrors(outcome))
         ELSE CASE call.method = "Scan" /\ cur.args.block ->
                     pc' = "get_check" /\ ret' = ret
                [] call.method = "Scan" /\ ~cur.args.block ->
                     pc' = "done" /\ ret' = Returns("None")
                [] OTHER ->
                     pc' = "done" /\ ret' = [Returns("bss_list") EXCEPT !.paths = bss]
    /\ UNCHANGED <<subs, pending, waiting, waits, scanSent, bss, cur, opsLeft, fires>>
    /\ UNCHANGED <<reactor, threadName, connects, root, created, cache, proxies, evald>>
    /\ UNCHANGED ext
    /\ UNCHANGED io

(***************************************************************************)
(* WpaSupplicantDriver.connect, the WpaSupplicant root proxy and the       *)
(* daemon's interface registry.                                            *)
(***************************************************************************)
\* what a decorated operation raises for the RemoteError ex
\* (_catch_remote_errors: `raise match(ex.message)` or
\* `raise WpaSupplicantException(ex.message)`)
Translated(ex) ==
    [Raises(CatchRemoteErrors(ex.errName)) EXCEPT !.message = ex.message]

\* a RemoteError that reaches the caller outside any decorated function
Untranslated(ex) == [Raises("RemoteError") EXCEPT !.message = ex.message]

\* a daemon that does not remember which interfaces it has created
DaemonReplyIgnoresCreated(method, arg) ==
    IF arg \in DOMAIN ValidInterfaces
        THEN OkReply(ValidInterfaces[arg])
        ELSE RemoteError("fi.w1.wpa_supplicant1.InterfaceUnknown", "")

\* a daemon that resolves every interface name
DaemonReplyKnowsAll(method, arg) ==
    IF arg \in DOMAIN ValidInterfaces
        THEN OkReply(ValidInterfaces[arg])
        ELSE OkReply("/Interfaces/3")

\* the daemon's answer to a method of the root object
DaemonReply(method, arg) ==
    CASE method = "GetInterface" ->
             IF arg \in DOMAIN ValidInterfaces
                 THEN OkReply(ValidInterfaces[arg])
                 ELSE RemoteError("fi.w1.wpa_supplicant1.InterfaceUnknown", "")
      [] method = "CreateInterface" ->
             IF arg \notin DOMAIN ValidInterfaces
                 THEN RemoteError("fi.w1.wpa_supplicant1.UnknownError", "")
             ELSE IF ValidInterfaces[arg] \in created
                 THEN RemoteError("fi.w1.wpa_supplicant1.InterfaceExists", "")
             ELSE OkReply(ValidInterfaces[arg])
      [] OTHER ->
             IF arg \in created
                 THEN OkReply(arg)
                 ELSE RemoteError("fi.w1.wpa_supplicant1.InterfaceUnknown", "")

\* a cache lookup that never finds anything
CachedInterfaceMiss(c, path) == 0

\* a remove_interface that drops the removed path's cache entry
CacheEvicts(c, path) == [c EXCEPT ![path] = 0]

\* the cache after remove_interface(interface_path) has succeeded: the
\* method makes the remote call and nothing else
CacheAfterRemove(c, path) == c

\* self._interfaces_cache.get(interface_path, None): 0 stands for None
CachedInterface(c, path) == c[path]

\* the errors the bus itself may answer any call with
BusErrors ==
    {[RemoteError(n, m) EXCEPT !.by = "bus"] :
        n \in DOMAIN REMOTE_EXCEPTIONS \cup {"org.freedesktop.DBus.Error.NoReply"},
        m \in Messages}

\* WpaSupplicantDriver.connect without its check of reactor.running
ConnectFirstStepSchedules(running) == "connect_wait"

\* WpaSupplicantDriver.connect: `if not self._reactor.running: raise
\* ReactorNotRunning`, else get_conn is handed to the reactor
ConnectFirstStep(running) == IF ~running THEN "raise" ELSE "connect_wait"

\* WpaSupplicantDriver.connect() entered
Connect ==
    /\ CanStart
    /\ ~root
    /\ opsLeft' = opsLeft - 1
    /\ cur' = Begin("connect")
    /\ IF ConnectFirstStep(Running) = "raise"
         THEN pc' = "done" /\ ret' = Raises("ReactorNotRunning")
         ELSE pc' = ConnectFirstStep(Running) /\ ret' = NoRet
    /\ UNCHANGED <<subs, pending, waiting, waits, scanSent, bss, call, fires>>
    /\ UNCHANGED drv
    /\ UNCHANGED ext
    /\ UNCHANGED io

\* get_conn runs on the reactor: thread_name is recorded, client.connect is
\* made, and WpaSupplicant('/fi/w1/wpa_supplicant1', conn, reactor) starts
\* fetching its remote objects
ConnectRun ==
    /\ Running
    /\ pc = "connect_wait"
    /\ threadName' = "engine"
    /\ connects' = connects + 1
    /\ pc' = "proxy_new"
    /\ UNCHANGED <<subs, pending, waiting, waits, scanSent, bss, call, cur, ret, opsLeft, fires>>
    /\ UNCHANGED <<reactor, root, created, cache, proxies, warnings, evald>>
    /\ UNCHANGED ext
    /\ io' = io \cup {<<"connect", "engine">>}

\* a method of the root proxy is entered: _call_remote_without_introspection
\* issues callRemote and _eval blocks the caller (no check of the reactor)
RootCall(op, method, arg) ==
    /\ CanStart
    /\ root
    /\ opsLeft' = opsLeft - 1
    /\ cur' = [Begin(op) EXCEPT !.name = arg]
    /\ call' = [method |-> method]
    /\ pc' = "root_call"
    /\ ret' = NoRet
    /\ UNCHANGED <<subs, pending, waiting, waits, scanSent, bss, fires>>
    /\ UNCHANGED drv
    /\ UNCHANGED ext
    /\ io' = io \cup {<<"callRemote", "caller">>}

\* WpaSupplicant.get_interface(interface_name)
GetInterface(name) == RootCall("get_interface", "GetInterface", name)

\* WpaSupplicant.create_interface(interface_name)
CreateInterface(name) == RootCall("create_interface", "CreateInterface", name)

\* WpaSupplicant.remove_interface(interface_path)
RemoveInterface(path) == RootCall("remove_interface", "RemoveInterface", path)

\* the reply to the root proxy's call arrives (the daemon's answer, or an
\* error of the bus): an error is translated by _catch_remote_errors; a path
\* from GetInterface is looked up in the cache; a path from CreateInterface
\* always gets a new proxy
RootReply(failure) ==
    /\ Running
    /\ pc = "root_call"
    /\ LET reply == IF failure.kind = "error" THEN failure
                    ELSE DaemonReply(call.method, cur.name)
       IN  /\ cur' = [cur EXCEPT !.reply = reply,
                                 !.path = IF reply.kind = "ok" THEN reply.path ELSE @]
           /\ created' = IF reply.kind # "ok" THEN created
                         ELSE IF call.method = "CreateInterface"
                             THEN created \cup {reply.path}
                         ELSE IF call.method = "RemoveInterface"
                             THEN created \ {reply.path}
                         ELSE created
           /\ warnings' = IF reply.kind = "error"
                              THEN Warned(warnings, reply.errName) ELSE warnings
           /\ cache' = IF reply.kind = "ok" /\ call.method = "RemoveInterface"
                           THEN CacheAfterRemove(cache, reply.path) ELSE cache
           /\ removed' = IF reply.kind = "ok" /\ call.method = "RemoveInterface"
                             THEN removed \cup {<<reply.path, cache[reply.path]>>}
                             ELSE removed
           /\ IF reply.kind = "error"
                THEN pc' = "done" /\ ret' = Translated(reply)
              ELSE IF call.method = "RemoveInterface"
                THEN pc' = "done" /\ ret' = Returns("None")
              ELSE IF call.method = "GetInterface"
                          /\ CachedInterface(cache, reply.path) # 0
                THEN /\ pc' = "done"
                     /\ ret' = [Returns("interface") EXCEPT
                                   !.proxy = CachedInterface(cache, reply.path)]
              ELSE pc' = "proxy_new" /\ ret' = ret
    /\ call' = NoCall
    /\ UNCHANGED <<subs, pending, waiting, waits, scanSent, bss, opsLeft, fires>>
    /\ UNCHANGED <<reactor, threadName, connects, root, proxies, evald>>
    /\ UNCHANGED <<currentNetwork, conv, callers>>
    /\ UNCHANGED io

\* BaseIface.__init__ of the proxy being constructed gets its remote
\* objects, or getRemoteObject fails with a RemoteError.  connect is
\* decorated, so the error is translated there; get_interface and
\* create_interface are not, so it reaches the caller as it is.
\* get_interface stores the new proxy in the cache.
ProxyReply(outcome) ==
    /\ Running
    /\ pc = "proxy_new"
    /\ cur' = [cur EXCEPT !.ctor = outcome]
    /\ pc' = "done"
    /\ IF outcome.kind = "error"
         THEN /\ ret' = IF cur.op = "connect" THEN Translated(outcome)
                                              ELSE Untranslated(outcome)
              /\ warnings' = IF cur.op = "connect"
                                 THEN Warned(warnings, outcome.errName)
                                 ELSE warnings
              /\ UNCHANGED <<root, cache, proxies>>
         ELSE IF cur.op = "connect"
                THEN /\ root' = TRUE
                     /\ ret' = Returns("root")
                     /\ UNCHANGED <<cache, proxies, warnings>>
                ELSE /\ proxies' = proxies + 1
                     /\ cache' = IF cur.op = "get_interface"
                                     THEN [cache EXCEPT ![cur.path] = proxies + 1]
                                     ELSE cache
                     /\ ret' = [Returns("interface") EXCEPT !.proxy = proxies + 1]
                     /\ UNCHANGED <<root, warnings>>
    /\ UNCHANGED <<subs, pending, waiting, waits, scanSent, bss, call, opsLeft, fires>>
    /\ UNCHANGED <<reactor, threadName, connects, created, evald>>
    /\ UNCHANGED ext
    /\ io' = io \cup {<<"getRemoteObject", "caller">>}

\* reactor.run() in the engine thread
ReactorRun ==
    /\ reactor = "idle"
    /\ reactor' = "running"
    /\ UNCHANGED <<subs, pending, waiting, waits, scanSent, bss, call, pc, cur, ret, opsLeft, fires>>
    /\ UNCHANGED <<threadName, connects, root, created, cache, proxies, warnings, evald>>
    /\ UNCHANGED ext
    /\ UNCHANGED io

\* reactor.stop()
ReactorStop ==
    /\ reactor = "running"
    /\ reactor' = "stopped"
    /\ UNCHANGED <<subs, pending, waiting, waits, scanSent, bss, call, pc, cur, ret, opsLeft, fires>>
    /\ UNCHANGED <<threadName, connects, root, created, cache, proxies, warnings, evald>>
    /\ UNCHANGED ext
    /\ UNCHANGED io

\* the outcomes a completed Deferred may carry
Outcomes == {Val(v) : v \in Payloads} \cup {Err("UnknownError"), Err("MethodTimeout")}

\* _eval(deferred, reactor) of a Deferred that has fired with outcome r,
\* called on thread t: "engine" from a callback the reactor runs, "caller"
\* from the foreign thread between two of its operations
EvalCompleted(t, r) ==
    /\ Running
    /\ t = "caller" => pc \in {"idle", "done"}
    /\ t = "engine" => threadName = "engine"
    /\ evald' = [thread |-> t, future |-> r, out |-> Eval(t = "engine", r)]
    /\ UNCHANGED <<subs, pending, waiting, waits, scanSent, bss, call, pc, cur, ret, opsLeft, fires>>
    /\ UNCHANGED <<reactor, threadName, connects, root, created, cache, proxies, warnings>>
    /\ UNCHANGED ext
    /\ UNCHANGED io

(***************************************************************************)
(* Interface.select_network, disconnect_network and get_current_network.   *)
(***************************************************************************)
\* a daemon that lets Disconnect succeed whatever is selected
InterfaceReplyNeverRefuses(method, arg, current) == OkReply(current)

\* the daemon's answer to a method of the interface object; for
\* Get('CurrentNetwork') the answer carries the property's value
InterfaceReply(method, arg, current) ==
    CASE method = "Disconnect" ->
             IF current = "None"
                 THEN RemoteError("fi.w1.wpa_supplicant1.NotConnected", "")
                 ELSE OkReply("None")
      [] method = "SelectNetwork" -> OkReply(arg)
      [] OTHER -> OkReply(current)

\* the daemon's CurrentNetwork after it has answered the method
CurrentAfter(method, arg, current) ==
    CASE method = "Disconnect" -> "None"
      [] method = "SelectNetwork" -> arg
      [] OTHER -> current

\* Interface.get_current_network: None for '/' or None, else a Network proxy
CurrentNetworkResult(path) ==
    IF path = "/" \/ path = "None"
        THEN Returns("None")
        ELSE [Returns("network") EXCEPT !.paths = {path}]

\* a method of an Interface proxy is entered: _call_remote issues callRemote
\* and _eval blocks the caller
IfaceCall(op, method, arg) ==
    /\ CanStart
    /\ opsLeft' = opsLeft - 1
    /\ cur' = [Begin(op) EXCEPT !.name = arg]
    /\ call' = [method |-> method]
    /\ pc' = "iface_call"
    /\ ret' = NoRet
    /\ io' = io \cup {<<"callRemote", "caller">>}
    /\ UNCHANGED <<subs, pending, waiting, waits, scanSent, bss, fires>>
    /\ UNCHANGED drv
    /\ UNCHANGED ext

\* Interface.select_network(network_path)
SelectNetwork(path) == IfaceCall("select_network", "SelectNetwork", path)

\* Interface.disconnect_network()
DisconnectNetwork == IfaceCall("disconnect_network", "Disconnect", "none")

\* Interface.get_current_network()
GetCurrentNetwork == IfaceCall("get_current_network", "CurrentNetwork", "none")

\* the reply to the interface proxy's call arrives (the daemon's answer, or
\* an error of the bus) and the method returns or raises
IfaceReply(failure) ==
    /\ Running
    /\ pc = "iface_call"
    /\ LET reply == IF failure.kind = "error" THEN failure
                    ELSE InterfaceReply(call.method, cur.name, currentNetwork)
       IN  /\ cur' = [cur EXCEPT !.reply = reply]
           /\ currentNetwork' = IF reply.kind = "ok"
                                    THEN CurrentAfter(call.method, cur.name, currentNetwork)
                                    ELSE currentNetwork
           /\ warnings' = IF reply.kind = "error"
                              THEN Warned(warnings, reply.errName) ELSE warnings
           /\ ret' = IF reply.kind = "error" THEN Translated(reply)
                     ELSE IF call.method = "CurrentNetwork"
                         THEN CurrentNetworkResult(reply.path)
                     ELSE Returns("None")
    /\ pc' = "done"
    /\ call' = NoCall
    /\ UNCHANGED <<subs, pending, waiting, waits, scanSent, bss, opsLeft, fires>>
    /\ UNCHANGED <<reactor, threadName, connects, root, created, cache, proxies, evald>>
    /\ UNCHANGED <<io, conv, callers, removed>>

\* the caller uses the network selection of one Interface proxy only
NextNetwork ==
    \/ \E path \in NetworkPaths : SelectNetwork(path)
    \/ DisconnectNetwork
    \/ GetCurrentNetwork
    \/ \E failure \in {NoReply} \cup BusErrors : IfaceReply(failure)

SpecNetwork == InitWith(MaxNetworkOps) /\ [][NextNetwork]_vars

(***************************************************************************)
(* Property conversions: BSS.get_channel, BSS.get_signal_quality and       *)
(* Network.get_properties.                                                 *)
(***************************************************************************)
ConvValue(n) == [NoConv EXCEPT !.kind = "value", !.num = n]
ConvRaise(e) == [NoConv EXCEPT !.kind = "raise", !.err = e]

\* a get_channel without its range check
GetChannelUnchecked(freq) ==
    IF freq = 2484 THEN ConvValue(14) ELSE ConvValue(1 + ((freq - 2412) \div 5))

\* BSS.get_channel for the frequency freq (integer division, as `/` on ints)
GetChannel(freq) ==
    IF freq = 2484 THEN ConvValue(14)
    ELSE IF freq > 2472 \/ freq < 2412 THEN ConvRaise("WpaSupplicantException")
    ELSE ConvValue(1 + ((freq - 2412) \div 5))

\* a get_signal_quality without its upper clamp
GetSignalQualityUnclamped(dbm) ==
    IF dbm <= 0 - 100 THEN ConvValue(0) ELSE ConvValue(2 * (dbm + 100))

\* BSS.get_signal_quality for the signal strength dbm
GetSignalQuality(dbm) ==
    IF dbm <= 0 - 100 THEN ConvValue(0)
    ELSE IF dbm >= 0 - 50 THEN ConvValue(100)
    ELSE ConvValue(2 * (dbm + 100))

\* the characters of an ssid: the two quote characters and a letter
QuoteChars == {"dquote", "squote"}
SsidChars == QuoteChars \cup {"a"}
Ssids == UNION {[1..n -> SsidChars] : n \in 0..MaxSsidLen}
StoredProps == {[ssid |-> x, key_mgmt |-> k] : x \in Ssids, k \in {"NONE", "WPA-PSK"}}

\* Network.get_properties on the stored properties props: a non-empty ssid
\* loses a leading quote character, then ssid[-1] is read (IndexError on the
\* empty string) and a trailing quote character is dropped
GetProperties(props) ==
    LET ssid == props.ssid
        s1 == IF ssid # <<>> /\ ssid[1] \in QuoteChars THEN Tail(ssid) ELSE ssid
    IN  IF ssid = <<>>
            THEN [ConvValue(0) EXCEPT !.out = props]
        ELSE IF s1 = <<>>
            THEN ConvRaise("IndexError")
        ELSE [ConvValue(0) EXCEPT !.out =
                 [props EXCEPT !.ssid = IF s1[Len(s1)] \in QuoteChars
                                            THEN SubSeq(s1, 1, Len(s1) - 1)
                                            ELSE s1]]

\* the caller reads a converted property; the daemon's property value is
\* any of the values tried
Convert(c) ==
    /\ conv' = c
    /\ UNCHANGED <<subs, pending, waiting, waits, scanSent, bss, call, pc, cur, ret, opsLeft, fires>>
    /\ UNCHANGED drv
    /\ UNCHANGED <<io, currentNetwork, callers, removed>>

\* bss.get_channel() when the Frequency property is freq
ReadChannel(freq) ==
    Convert([GetChannel(freq) EXCEPT !.fn = "get_channel", !.freq = freq])

\* bss.get_signal_quality() when the Signal property is dbm
ReadSignalQuality(dbm) ==
    Convert([GetSignalQuality(dbm) EXCEPT !.fn = "get_signal_quality", !.dbm = dbm])

\* network.get_properties() when the Properties property is props
ReadProperties(props) ==
    Convert([GetProperties(props) EXCEPT !.fn = "get_properties", !.props = props])

\* the caller reads converted properties only
NextConv ==
    \/ \E freq \in MinFreq..MaxFreq : ReadChannel(freq)
    \/ \E dbm \in (0 - MaxLoss)..(0 - MinLoss) : ReadSignalQuality(dbm)
    \/ \E props \in StoredProps : ReadProperties(props)

SpecConv == InitWith(MaxOps) /\ [][NextConv]_vars

\* the caller uses the driver and the root proxy only
NextDriver ==
    \/ ReactorRun
    \/ ReactorStop
    \/ Connect
    \/ ConnectRun
    \/ \E name \in IfaceNames : GetInterface(name)
    \/ \E name \in IfaceNames : CreateInterface(name)
    \/ \E path \in IfacePaths : RemoveInterface(path)
    \/ \E failure \in {NoReply} \cup BusErrors : RootReply(failure)
    \/ \E outcome \in {OkReply("none")} \cup BusErrors : ProxyReply(outcome)
    \/ \E t \in {"caller", "engine"}, r \in Outcomes : EvalCompleted(t, r)

\* before reactor.run() and before connect()
InitDriver ==
    /\ subs = <<>>
    /\ pending = <<>>
    /\ waiting = <<>>
    /\ waits = <<>>
    /\ scanSent = <<>>
    /\ bss = {}
    /\ call = NoCall
    /\ pc = "idle"
    /\ cur = NoCur
    /\ ret = NoRet
    /\ opsLeft = MaxDriverOps
    /\ fires = 0
    /\ reactor = "idle"
    /\ threadName = "none"
    /\ connects = 0
    /\ root = FALSE
    /\ created = {}
    /\ cache = [p \in IfacePaths |-> 0]
    /\ proxies = 0
    /\ warnings = {}
    /\ evald = NoEval
    /\ io = {}
    /\ currentNetwork = "None"
    /\ conv = NoConv
    /\ callers = NoCallers
    /\ removed = {}

SpecDriver == InitDriver /\ [][NextDriver]_vars

\* the caller uses get_interface, create_interface and remove_interface of
\* a connected root proxy; the bus answers every call
NextCache ==
    \/ \E name \in IfaceNames : GetInterface(name)
    \/ \E name \in IfaceNames : CreateInterface(name)
    \/ \E path \in IfacePaths : RemoveInterface(path)
    \/ RootReply(NoReply)
    \/ ProxyReply(OkReply("none"))

SpecCache == InitWith(MaxCacheOps) /\ [][NextCache]_vars

(***************************************************************************)
(* WpaSupplicant.get_interface called by two application threads at once.  *)
(* The method holds no lock; each thread blocks in _eval during the remote *)
(* call and during the construction of the proxy, so the other thread may  *)
(* run between any two of the method's statements.                         *)
(***************************************************************************)

\* what the two threads leave alone
single == <<subs, pending, waiting, waits, scanSent, bss, call, pc, cur, ret, opsLeft, fires>>

\* thread t enters get_interface(name): callRemote('GetInterface', name) is
\* issued and the thread blocks in _eval
GiCall(t, name) ==
    /\ Running
    /\ root
    /\ callers[t].pc \in {"idle", "done"}
    /\ callers[t].calls < MaxCalls
    /\ callers' = [callers EXCEPT ![t] =
                      [pc |-> "called", name |-> name, path |-> "none",
                       found |-> 0, made |-> 0, got |-> 0, calls |-> @.calls + 1]]
    /\ io' = io \cup {<<"callRemote", "caller">>}
    /\ UNCHANGED single
    /\ UNCHANGED drv
    /\ UNCHANGED <<currentNetwork, conv, removed>>

\* the daemon's answer reaches thread t: interface_path is assigned, or the
\* error is raised and the call is over
GiReply(t) ==
    /\ Running
    /\ callers[t].pc = "called"
    /\ LET reply == DaemonReply("GetInterface", callers[t].name)
       IN  callers' = [callers EXCEPT ![t].pc = IF reply.kind = "ok" THEN "lookup" ELSE "done",
                                      ![t].path = IF reply.kind = "ok" THEN reply.path ELSE @]
    /\ UNCHANGED single
    /\ UNCHANGED drv
    /\ UNCHANGED <<currentNetwork, conv, removed>>
    /\ UNCHANGED io

\* interface = self._interfaces_cache.get(interface_path, None), and the
\* return of the cached proxy when there is one
GiLookup(t) ==
    /\ callers[t].pc = "lookup"
    /\ LET found == CachedInterface(cache, callers[t].path)
       IN  callers' = [callers EXCEPT ![t].found = found,
                                      ![t].got = found,
                                      ![t].pc = IF found # 0 THEN "done" ELSE "construct"]
    /\ UNCHANGED single
    /\ UNCHANGED drv
    /\ UNCHANGED <<currentNetwork, conv, removed>>
    /\ UNCHANGED io

\* interface = Interface(interface_path, self._conn, self._reactor): a new
\* proxy object, whose constructor blocks in _eval for getRemoteObject
GiConstruct(t) ==
    /\ Running
    /\ callers[t].pc = "construct"
    /\ proxies' = proxies + 1
    /\ callers' = [callers EXCEPT ![t].made = proxies + 1, ![t].pc = "store"]
    /\ io' = io \cup {<<"getRemoteObject", "caller">>}
    /\ UNCHANGED single
    /\ UNCHANGED <<reactor, threadName, connects, root, created, cache, warnings, evald>>
    /\ UNCHANGED <<currentNetwork, conv, removed>>

\* self._interfaces_cache[interface_path] = interface; return interface
GiStore(t) ==
    /\ callers[t].pc = "store"
    /\ cache' = [cache EXCEPT ![callers[t].path] = callers[t].made]
    /\ callers' = [callers EXCEPT ![t].got = callers[t].made, ![t].pc = "done"]
    /\ UNCHANGED single
    /\ UNCHANGED <<reactor, threadName, connects, root, created, proxies, warnings, evald>>
    /\ UNCHANGED <<currentNetwork, conv, removed>>
    /\ UNCHANGED io

NextTwoCallers ==
    \/ \E t \in {1, 2}, name \in IfaceNames : GiCall(t, name)
    \/ \E t \in {1, 2} : GiReply(t)
    \/ \E t \in {1, 2} : GiLookup(t)
    \/ \E t \in {1, 2} : GiConstruct(t)
    \/ \E t \in {1, 2} : GiStore(t)

SpecTwoCallers == InitWith(MaxOps) /\ [][NextTwoCallers]_vars

Next ==
    \/ \E name \in Signals, cb \in {"records", "cancels", "not_callable"} :
           RegisterSignal(name, cb)
    \/ \E h \in DOMAIN subs : CancelEnter(h)
    \/ CancelReturn
    \/ \E name \in Signals : RegisterSignalOnce(name)
    \/ RsoNew
    \/ RsoAssign
    \/ \E q \in DOMAIN subs, t \in Timeouts : Get(q, t)
    \/ GetCheck
    \/ GetTake
    \/ GetTimer
    \/ GetAddCallback
    \/ GetEval
    \/ \E args \in ScanArgs : Scan(args)
    \/ ScanCall
    \/ BssCall
    \/ \E i \in DOMAIN subs : SubscribeReply(i)
    \/ \E name \in Signals, v \in Payloads, found \in SUBSET BssPaths :
           FireSignal(name, v, found)
    \/ \E w \in DOMAIN waits : TimerFire(w)
    \/ \E outcome \in {"ok"} \cup RemoteErrorNames : CallReply(outcome)
    \/ NextDriver
    \/ NextNetwork
    \/ NextConv
    \/ NextTwoCallers

Spec == Init /\ [][Next]_vars

\* the caller uses register_signal_once and TimeoutDeferredQueue.get only
NextQueue ==
    \/ \E name \in Signals : RegisterSignalOnce(name)
    \/ RsoNew
    \/ RsoAssign
    \/ \E q \in DOMAIN subs, t \in Timeouts : Get(q, t)
    \/ GetCheck
    \/ GetTake
    \/ GetTimer
    \/ GetAddCallback
    \/ GetEval
    \/ \E i \in DOMAIN subs : SubscribeReply(i)
    \/ \E name \in Signals, v \in Payloads : FireSignal(name, v, bss)
    \/ \E w \in DOMAIN waits : TimerFire(w)

SpecQueue == InitWith(MaxQueueOps) /\ [][NextQueue]_vars

\* the caller uses register_signal and RemoteSignal.cancel only
NextSignal ==
    \/ \E name \in Signals, cb \in {"records", "cancels", "not_callable"} :
           RegisterSignal(name, cb)
    \/ \E h \in DOMAIN subs : CancelEnter(h)
    \/ CancelReturn
    \/ \E i \in DOMAIN subs : SubscribeReply(i)
    \/ \E name \in Signals, v \in Payloads : FireSignal(name, v, bss)

SpecSignal == InitWith(MaxSignalOps) /\ [][NextSignal]_vars


\* the caller uses Interface.scan only
NextScan ==
    \/ \E args \in ScanArgs : Scan(args)
    \/ RsoNew
    \/ RsoAssign
    \/ ScanCall
    \/ GetCheck
    \/ GetTake
    \/ GetTimer
    \/ GetAddCallback
    \/ GetEval
    \/ BssCall
    \/ \E i \in DOMAIN subs : SubscribeReply(i)
    \/ \E v \in Payloads, found \in SUBSET BssPaths : FireSignal("ScanDone", v, found)
    \/ \E w \in DOMAIN waits : TimerFire(w)
    \/ \E outcome \in {"ok"} \cup RemoteErrorNames : CallReply(outcome)

SpecScan == InitWith(MaxScanOps) /\ [][NextScan]_vars


(***************************************************************************)
(* Properties.                                                             *)
(***************************************************************************)
\* the wait w was failed by its timer in this step
TimesOutNow(w) == waits[w].nErrback = 0 /\ waits'[w].nErrback = 1

\* C1: every wait handed out by get resolves exactly once: its Deferred is
\* fired at most once, a wait failed by its timer is out of the queue's
\* waiters (a later put cannot fire it), and a resolved wait carries either
\* the pushed value or MethodTimeout, whatever the order of the put and of
\* the timer (a timer that runs after the delivery changes nothing).
C1_WaitResolvesOnce ==
    \A w \in DOMAIN waits :
        /\ waits[w].nCallback + waits[w].nErrback <= 1
        /\ waits[w].nErrback = 1 => ~InSeq(waiting[waits[w].q], w)
        /\ waits[w].called =>
               \/ waits[w].nCallback = 1 /\ waits[w].result.kind = "value"
               \/ waits[w].nErrback = 1 /\ waits[w].result = Err("MethodTimeout")

\* C2: get(T) with T > 0 raises MethodTimeout only when no value was pushed
\* before the timer fired, and returns the value (does not raise) when one
\* was delivered to its wait.
C2_TimeoutOnlyWithoutValue ==
    [][/\ \A w \in DOMAIN waits :
              TimesOutNow(w) => pending[waits[w].q] = <<>>
       /\ (pc = "get_eval" /\ pc' = "done" /\ cur.op = "get"
              /\ cur.timeout # 0 /\ waits[cur.wait].nCallback = 1)
            => (ret'.kind = "return" /\ ret'.what = "value")]_vars

\* C3: no pushed value is lost: no get is left waiting (to block or to time
\* out) on a queue whose buffer holds a value.
C3_NoLostValue ==
    \A i \in DOMAIN subs : ~(pending[i] # <<>> /\ waiting[i] # <<>>)

\* C4: a register_signal_once registration runs its callback at most once
\* (so its queue receives at most one value), and once the callback has
\* cancelled its RemoteSignal the subscription is cancelled.
C4_OnceRunsOnce ==
    \A i \in DOMAIN subs :
        subs[i].kind = "once" =>
            /\ subs[i].invoked <= 1
            /\ subs[i].cancelDone => subs[i].state = "cancelled"

\* C5: RemoteSignal.cancel() is idempotent: once the subscription is
\* cancelled, a further cancel() sends no further unsubscribe to the remote
\* object.
C5_CancelIdempotent ==
    [][\A i \in DOMAIN subs :
           subs[i].state = "cancelled" => subs'[i].cancels = subs[i].cancels]_vars

\* C6: once handle.cancel() has returned, the callback given to
\* register_signal is never invoked again.
C6_NoCallbackAfterCancel ==
    \A i \in DOMAIN subs : subs[i].kind = "user" => subs[i].lateRuns = 0

\* a blocking scan has returned or raised
BlockingScanDone == pc = "done" /\ cur.op = "scan" /\ cur.args.block

\* C7: whenever scan(block=True) has returned or raised, its ScanDone
\* subscription has been cancelled exactly once and none of its waits is
\* pending or has a timer scheduled.
C7_NoDanglingWait ==
    BlockingScanDone =>
        /\ subs[cur.sub].state = "cancelled"
        /\ subs[cur.sub].cancels = 1
        /\ waiting[cur.sub] = <<>>
        /\ \A w \in DOMAIN waits :
               waits[w].q = cur.sub => waits[w].timer # "scheduled"

\* C8: the ScanDone wait decides a blocking scan: the wait times out only
\* when no ScanDone has reached the registration; a payload of true goes on
\* to fetch the BSSs and returns one proxy per path of the property; a
\* payload of false raises UnknownError.
C8_ScanOutcome ==
    [][/\ \A w \in DOMAIN waits :
              TimesOutNow(w) => subs[waits[w].q].invoked = 0
       /\ (pc = "get_eval" /\ pc' # pc /\ cur.op = "scan"
              /\ waits[cur.wait].nCallback = 1)
            => IF subs[cur.sub].lastVal /\ subs[cur.sub].invoked = 1
                   THEN pc' = "bss_call"
                   ELSE subs[cur.sub].invoked = 1
                            => (pc' = "done" /\ ret' = Raises("UnknownError"))
       /\ (pc = "call_wait" /\ call.method = "Get" /\ ret'.kind = "return")
            => (ret'.what = "bss_list" /\ ret'.paths = bss)]_vars

\* a non-blocking scan has returned or raised
PlainScanDone == pc = "done" /\ cur.op = "scan" /\ ~cur.args.block

\* C9: scan(block=False) issues exactly one Scan call and returns None; it
\* registers no subscription, creates no queue wait and schedules no timer.
C9_PlainScanFrame ==
    PlainScanDone =>
        /\ Len(scanSent) = cur.sent0 + 1
        /\ Len(subs) = cur.subs0
        /\ Len(waits) = cur.waits0
        /\ ret.kind = "return" => ret.what = "None"

C9_Witness == PlainScanDone /\ ret.kind = "return"

\* the options the caller gave to scan
GivenOptions(args) ==
    {<<"Type", args.type>>}
    \cup (IF args.ssids # "None" THEN {<<"SSIDs", args.ssids>>} ELSE {})
    \cup (IF args.ies # "None" THEN {<<"IEs", args.ies>>} ELSE {})
    \cup (IF args.channels # "None" THEN {<<"Channels", args.channels>>} ELSE {})

\* C10: every option the caller passed to scan is in the options dictionary
\* sent with the Scan call.
C10_OptionsSent ==
    (pc = "call_wait" /\ call.method = "Scan")
        => GivenOptions(cur.args) \subseteq scanSent[Len(scanSent)]

\* a decorated operation has ended on a RemoteError: of the remote call any
\* root-proxy method makes, or of the proxy construction inside connect
DecoratedError ==
    IF pc = "done" /\ cur.reply.kind = "error" THEN cur.reply
    ELSE IF pc = "done" /\ cur.op = "connect" /\ cur.ctor.kind = "error" THEN cur.ctor
    ELSE NoReply

\* C11: for every remote error whose name is a key of the error table, a
\* decorated operation raises exactly the local kind the table maps the
\* name to, carrying the original message.
C11_MappedErrorRaised ==
    DecoratedError.errName \in DOMAIN REMOTE_EXCEPTIONS =>
        /\ ret.kind = "raise"
        /\ ret.err = REMOTE_EXCEPTIONS[DecoratedError.errName]
        /\ ret.message = DecoratedError.message

C11_Witness ==
    /\ DecoratedError.errName = "fi.w1.wpa_supplicant1.NetworkUnknown"
    /\ DecoratedError.message = "failed"
    /\ ret.err = "NetworkUnknown"
    /\ ret.message = "failed"

\* a decorated operation has ended on a RemoteError that is not in the table
UnmappedError ==
    /\ DecoratedError.kind = "error"
    /\ DecoratedError.errName \notin DOMAIN REMOTE_EXCEPTIONS

MappedKinds == {REMOTE_EXCEPTIONS[n] : n \in DOMAIN REMOTE_EXCEPTIONS}

C13_NoRemoteErrorLeaks ==
    (pc = "done" /\ ret.kind = "raise") => ret.err # "RemoteError"

\* a connect() that was called while the reactor was not running
ConnectWhileStopped == cur.op = "connect" /\ ~cur.wasRunning

\* C14: connect() called while the reactor is not running raises
\* ReactorNotRunning before anything is scheduled: no connection attempt is
\* made, no thread name is recorded and no proxy is created.
C14_ConnectNeedsReactor ==
    ConnectWhileStopped =>
        /\ pc = "done"
        /\ ret = Raises("ReactorNotRunning")
        /\ connects = cur.connects0
        /\ threadName = cur.thread0
        /\ ~root
        /\ proxies = cur.proxies0

C14_Witness == ConnectWhileStopped /\ pc = "done" /\ ret.err = "ReactorNotRunning"

\* C15: every operation that needs the engine, called while the reactor is
\* not running, fails with ReactorNotRunning instead of blocking or
\* scheduling work on the stopped engine.
C15_EveryOperationNeedsReactor ==
    (cur.op # "none" /\ ~cur.wasRunning) =>
        (pc = "done" /\ ret = Raises("ReactorNotRunning"))

\* C16: _eval on a foreign thread keeps success and error apart: a future
\* completed with value v makes it return v, a future failed with error e
\* makes it raise e, never a value and never another error.
C16_EvalRelaysOutcome ==
    evald.thread = "caller" =>
        /\ ~evald.out.wrapped
        /\ evald.future.kind = "value" =>
               (evald.out.how = "return" /\ evald.out.inner = evald.future)
        /\ evald.future.kind = "raise" =>
               (evald.out.how = "raise" /\ evald.out.inner.err = evald.future.err)

C16_Witness ==
    /\ evald.thread = "caller"
    /\ evald.future = Err("MethodTimeout")
    /\ evald.out.how = "raise"
    /\ evald.out.inner.err = "MethodTimeout"

\* C17: _eval of a completed future gives on the engine thread what it gives
\* on a foreign thread: the future's value itself (or its error raised), not
\* a wrapper around it.
C17_EvalThreadTransparent ==
    evald.thread = "engine" =>
        /\ ~evald.out.wrapped
        /\ evald.out.how = IF evald.future.kind = "raise" THEN "raise" ELSE "return"

\* a get_interface call returns a proxy in this step
GetInterfaceReturns ==
    /\ cur.op = "get_interface"
    /\ pc # "done"
    /\ pc' = "done"
    /\ ret'.kind = "return"

\* C18: get_interface returns the proxy cached under the resolved path; it
\* constructs a proxy only when the path is not in the cache, stores it
\* under that path, and no cache entry is ever replaced: two calls that
\* resolve to the same path return the same proxy.
C18_InterfaceCached ==
    [][/\ \A p \in IfacePaths : cache[p] # 0 => cache'[p] = cache[p]
       /\ GetInterfaceReturns =>
            /\ ret'.proxy # 0
            /\ ret'.proxy = cache'[cur'.path]
            /\ IF cache[cur'.path] # 0
                 THEN proxies' = proxies /\ cache' = cache
                 ELSE /\ proxies' = proxies + 1
                      /\ cache' = [cache EXCEPT ![cur'.path] = proxies + 1]]_vars

C18_Witness ==
    /\ pc = "done"
    /\ cur.op = "get_interface"
    /\ ret.kind = "return"
    /\ cur.cache0[cur.path] # 0
    /\ ret.proxy = cur.cache0[cur.path]
    /\ proxies = cur.proxies0

\* a create_interface for a name that was registered when it was called
CreateRegisteredDone ==
    /\ pc = "done"
    /\ cur.op = "create_interface"
    /\ cur.name \in DOMAIN ValidInterfaces
    /\ ValidInterfaces[cur.name] \in cur.created0

\* C19: create_interface for a name that is already registered raises
\* (InterfaceExists, when it is the daemon that answers), returns no proxy,
\* and leaves the daemon's registered interfaces and the cache unchanged.
C19_CreateExisting ==
    CreateRegisteredDone =>
        /\ ret.kind = "raise"
        /\ ret.proxy = 0
        /\ cur.reply = RemoteError("fi.w1.wpa_supplicant1.InterfaceExists", "")
               => ret.err = "InterfaceExists"
        /\ created = cur.created0
        /\ cache = cur.cache0
        /\ proxies = cur.proxies0

C19_Witness ==
    /\ CreateRegisteredDone
    /\ ret.err = "InterfaceExists"
    /\ cur.reply.message = ""

\* a get_interface for a name the daemon does not control
GetUnknownDone ==
    /\ pc = "done"
    /\ cur.op = "get_interface"
    /\ cur.name \notin DOMAIN ValidInterfaces

\* C20: get_interface for a name the daemon does not control raises
\* (InterfaceUnknown, when it is the daemon that answers), returns no proxy
\* and adds no entry to the interface cache.
C20_GetUnknown ==
    GetUnknownDone =>
        /\ ret.kind = "raise"
        /\ ret.proxy = 0
        /\ cur.reply = RemoteError("fi.w1.wpa_supplicant1.InterfaceUnknown", "")
               => ret.err = "InterfaceUnknown"
        /\ cache = cur.cache0
        /\ proxies = cur.proxies0

C20_Witness ==
    /\ GetUnknownDone
    /\ ret.err = "InterfaceUnknown"
    /\ cur.reply.errName = "fi.w1.wpa_supplicant1.InterfaceUnknown"

\* a disconnect_network that the daemon itself answered has ended
DisconnectDone ==
    /\ pc = "done"
    /\ cur.op = "disconnect_network"
    /\ cur.reply.kind # "none"
    /\ cur.reply.by = "daemon"

\* C21: disconnect_network raises NotConnected exactly when no network was
\* selected when it was called; a successful one leaves the current network
\* empty, and get_current_network returns None exactly when it is empty.
C21_DisconnectFollowsSelection ==
    /\ DisconnectDone =>
         /\ (ret.kind = "raise" /\ ret.err = "NotConnected") <=> cur.current0 = "None"
         /\ ret.kind = "return" <=> cur.current0 # "None"
         /\ currentNetwork = "None"
    /\ (pc = "done" /\ cur.op = "get_current_network" /\ ret.kind = "return") =>
         (ret.what = "None" <=> cur.current0 = "None")

C21_Witness ==
    /\ DisconnectDone
    /\ cur.current0 = "None"
    /\ ret.err = "NotConnected"
    /\ opsLeft <= MaxNetworkOps - 3

\* C22: get_channel gives 14 for 2484, raises WpaSupplicantException for any
\* other frequency outside [2412, 2472], and otherwise the channel c with
\* 2412 + 5 * (c - 1) <= f < 2412 + 5 * c; every channel returned is in 1..14.
C22_ChannelOfFrequency ==
    conv.fn = "get_channel" =>
        LET f == conv.freq
        IN  /\ f = 2484 => (conv.kind = "value" /\ conv.num = 14)
            /\ (f # 2484 /\ (f < 2412 \/ f > 2472)) =>
                   (conv.kind = "raise" /\ conv.err = "WpaSupplicantException")
            /\ (f >= 2412 /\ f <= 2472) =>
                   /\ conv.kind = "value"
                   /\ 2412 + 5 * (conv.num - 1) <= f
                   /\ f < 2412 + 5 * conv.num
            /\ conv.kind = "value" => conv.num \in 1..14

C22_Witness ==
    /\ conv.fn = "get_channel"
    /\ conv.freq = 2462
    /\ conv.kind = "value"
    /\ conv.num = 11

\* C23: get_signal_quality gives 0 for d <= -100, 100 for d >= -50 and
\* 2 * (d + 100) in between; the result is within 0..100, and of two
\* readings the one with the larger d is not smaller.
C23_SignalQuality ==
    [][conv'.fn = "get_signal_quality" =>
          LET d == conv'.dbm
          IN  /\ conv'.kind = "value"
              /\ d <= 0 - 100 => conv'.num = 0
              /\ d >= 0 - 50 => conv'.num = 100
              /\ (d > 0 - 100 /\ d < 0 - 50) => conv'.num = 2 * (d + 100)
              /\ conv'.num \in 0..100
              /\ (conv.fn = "get_signal_quality" /\ conv.dbm <= d)
                     => conv.num <= conv'.num]_vars

C23_Witness ==
    /\ conv.fn = "get_signal_quality"
    /\ conv.dbm = 0 - 60
    /\ conv.num = 80

\* the ssid x with at most one leading and at most one trailing quote
\* character removed
Unquoted(x) ==
    LET a == IF x # <<>> /\ x[1] \in QuoteChars THEN 1 ELSE 0
        r == SubSeq(x, a + 1, Len(x))
        b == IF r # <<>> /\ r[Len(r)] \in QuoteChars THEN 1 ELSE 0
    IN  SubSeq(r, 1, Len(r) - b)

\* C30: get_properties never raises because of the ssid's content (the empty
\* string and a single quote character included), returns the ssid without
\* one leading and one trailing quote character, and leaves the other
\* properties as they are.
C30_SsidUnquoted ==
    conv.fn = "get_properties" =>
        /\ conv.kind = "value"
        /\ conv.out.ssid = Unquoted(conv.props.ssid)
        /\ conv.out.key_mgmt = conv.props.key_mgmt

\* a blocking scan has issued its Scan call
BlockingScanTriggered ==
    cur.op = "scan" /\ cur.args.block /\ Len(scanSent) > cur.sent0

\* C24: in scan(block=True) the ScanDone subscription is requested before
\* the Scan call is issued, so that a ScanDone that reached the registration
\* is observed by the wait: the wait of the scan does not time out then.
C24_RegisteredBeforeTrigger ==
    [][/\ BlockingScanTriggered =>
            (Len(subs) > cur.subs0 /\ subs[cur.sub].name = "ScanDone")
       /\ \A w \in DOMAIN waits :
              (BlockingScanTriggered /\ waits[w].q = cur.sub
                   /\ waits[w].nErrback = 0 /\ waits'[w].nErrback = 1)
                => subs[cur.sub].invoked = 0]_vars

\* C25: every interaction with a bus object and every timer scheduling is
\* made on the engine thread, none on the caller's own thread.
C25_BusCallsOnEngine ==
    \A x \in io : x[2] = "engine"

\* the wait w of queue i is handed a pushed value in this step
DeliveredNow(w, i) ==
    /\ w \in DOMAIN waits
    /\ waits[w].q = i
    /\ waits[w].nCallback = 0
    /\ waits'[w].nCallback = 1
    /\ InSeq(waiting[i], w)

\* C29: a timed-out wait is out of the queue's waiters and never receives a
\* value, so a later value is buffered for the next get; and values go to
\* successive gets in the order they were pushed: a waiting get is handed a
\* value only when no older value sits in the buffer.
C29_TimedOutWaitConsumesNothing ==
    [][/\ \A w \in DOMAIN waits' :
              waits'[w].nErrback = 1 =>
                  (~InSeq(waiting'[waits'[w].q], w) /\ waits'[w].nCallback = 0)
       /\ \A i \in DOMAIN subs : \A w \in DOMAIN waits :
              DeliveredNow(w, i) => pending[i] = <<>>]_vars

\* C26: _eval of a future that has already completed returns its value or
\* raises its error at once, from whichever thread: nothing is scheduled on
\* the engine and the result is the recorded outcome itself.
C26_EvalCompletedImmediate ==
    evald.thread # "none" =>
        /\ ~evald.out.scheduled
        /\ ~evald.out.wrapped

\* the proxy the cache held for path when remove_interface(path) succeeded
CachedWhenRemoved(path) == {x[2] : x \in {y \in removed : y[1] = path /\ y[2] # 0}}

\* C27: the cache never evicts: the set of cached paths never shrinks, and
\* after remove_interface(path) a get_interface that resolves to that path
\* returns the proxy that was cached before the removal.
C27_CacheNeverEvicts ==
    [][/\ {p \in IfacePaths : cache[p] # 0} \subseteq {p \in IfacePaths : cache'[p] # 0}
       /\ GetInterfaceReturns =>
            \A x \in CachedWhenRemoved(cur'.path) : ret'.proxy = x]_vars

C27_Witness ==
    /\ pc = "done"
    /\ cur.op = "get_interface"
    /\ ret.kind = "return"
    /\ cur.path \notin created
    /\ CachedWhenRemoved(cur.path) = {ret.proxy}

\* both extra threads have returned from get_interface with a proxy of path
BothReturned(path) ==
    \A t \in {1, 2} : callers[t].pc = "done" /\ callers[t].path = path /\ callers[t].got # 0

\* C28: two threads calling get_interface at once for a name whose path is
\* not cached construct one proxy between them and both return it; the
\* cache holds the proxy the callers received.
C28_OneProxyPerPath ==
    \A path \in IfacePaths :
        BothReturned(path) =>
            /\ callers[1].got = callers[2].got
            /\ cache[path] = callers[1].got
            /\ callers[1].made = 0 \/ callers[2].made = 0

====
